---- MODULE Spec2Model ----
(***************************************************************************)
(* Task tracker (src/app_original.py): Streamlit sessions that start,      *)
(* finish, cancel and delete timed tasks kept in CSV files of a GitHub     *)
(* repository.  Every remote call (GET or PUT of the contents API) is one  *)
(* step, so the calls of different sessions interleave; what a script run  *)
(* computes locally between two remote calls belongs to the step of the    *)
(* call that precedes it.                                                  *)
(*                                                                         *)
(* Units: times are clock ticks of TickMinutes minutes, durations are      *)
(* minutes, rates are cents per hour and costs are cents.                  *)
(***************************************************************************)
EXTENDS Integers, Sequences, FiniteSets, TLC

\* ------------------------------------------------------------------ bounds
MaxTasks == 2
MaxClock == 2

\* --------------------------------------------------------------- constants
TickMinutes == 45

Sessions == {"s1", "s2"}
Employees == {"E1", "E2"}
TaskIds == 1 .. MaxTasks

\* a DataFrame cell holding None / NaN, and an empty cell of the CSV file
NaN == -1
Blank == -2
\* st.session_state.active_task_id = None
NoTask == 0
\* a cell of a column the CSV file does not have, and a cell of a numeric
\* column that holds text
Missing == -3
Malformed == -4

\* hourly_rate column of employees.csv, in cents per hour
Rate(e) == IF e = "E1" THEN 2000 ELSE 2025

\* the hourly rates an employee's row may hold, in cents
Rates == {2000, 2025}

\* the three default task types written by get_tasklist
DefaultTaskTypes ==
    <<[task_type_id |-> "TT_SALES_1", task_name |-> "First Contact Reply"],
      [task_type_id |-> "TT_SALES_2", task_name |-> "Schedule Site Survey"],
      [task_type_id |-> "TT_OPS_1", task_name |-> "Pull Fiber"]>>

\* what an admin may type into the add_task_type form: the id of a default
\* task type or a new one, and a name
TaskTypeIds == {"TT_OPS_1", "TT_NEW"}
TaskNames == {"Pull Fiber", "Splice Fiber"}

VARIABLES
    clock,            \* datetime.now(TIMEZONE), in ticks
    tasksFile,        \* remote tasks.csv: [exists, rows]
    tasklistFile,     \* remote Tasklist.csv: [exists, rows]
    cache,            \* st.cache_data: one entry per cached function, shared
                      \* by the sessions of the server
    active_task_id,   \* st.session_state.active_task_id of each session
    pc,               \* where each session's script run is
    pend,             \* locals of the _github_safe_put call in flight
    report,           \* what the step just taken showed its user
    issued,           \* number of task ids generated so far
    seedPuts,         \* accepted puts of the default task types (history)
    deleted,          \* task ids whose delete reported success and that no
                      \* load of the task table has followed yet (history)
    TASKS_FILE,       \* src/app.py: rows of the local data/tasks.csv
    hourly_rate,      \* hourly_rate column of employees.csv (the remote
                      \* file of src/app_original.py, data/employees.csv
                      \* of src/app.py)
    sheet             \* src/app.py: rows appended to the Google Sheet

\* the state of src/app.py that src/app_original.py does not have
appVars == <<TASKS_FILE, hourly_rate, sheet>>

vars == <<clock, tasksFile, tasklistFile, cache, active_task_id, pc, pend,
          report, issued, seedPuts, deleted, TASKS_FILE, hourly_rate, sheet>>

\* ------------------------------------------------------------ pure helpers
SeqToSet(sq) == {sq[i] : i \in 1 .. Len(sq)}

Ids(rows) == {rows[i].task_id : i \in 1 .. Len(rows)}

\* the ids of the Completed rows of a CSV file (end_time not empty)
CompletedIds(rows) ==
    {rows[i].task_id : i \in {k \in 1 .. Len(rows) : rows[k].end_time # Blank}}

\* df[df["task_id"].isin(keep)]: boolean-mask row selection, order kept
SelectRows(df, keep) == SelectSeq(df, LAMBDA r : r.task_id \in keep)

\* df.to_csv(index=False): a missing value is written as an empty cell
CellToCsv(v) == IF v = NaN THEN Blank ELSE v
ToCsv(df) ==
    [i \in 1 .. Len(df) |->
        [task_id |-> df[i].task_id,
         employee_id |-> df[i].employee_id,
         start_time |-> df[i].start_time,
         end_time |-> CellToCsv(df[i].end_time),
         duration_minutes |-> CellToCsv(df[i].duration_minutes),
         cost |-> CellToCsv(df[i].cost)]]

\* pd.read_csv: an empty cell is read as NaN; _load_from_github adds a
\* column the file lacks with None in every row
CellFromCsv(v) == IF v \in {Blank, Missing} THEN NaN ELSE v
ReadCsv(rows) ==
    [i \in 1 .. Len(rows) |->
        [task_id |-> rows[i].task_id,
         employee_id |-> rows[i].employee_id,
         start_time |-> rows[i].start_time,
         end_time |-> CellFromCsv(rows[i].end_time),
         duration_minutes |-> CellFromCsv(rows[i].duration_minutes),
         cost |-> CellFromCsv(rows[i].cost)]]

\* _load_from_github: the parsed file on 200, an empty frame on 404, on any
\* other status and on any exception
LoadFromGithub(file, ok) ==
    IF ok /\ file.exists THEN ReadCsv(file.rows) ELSE <<>>

\* pd.to_numeric left to raise nothing and to keep what it cannot parse
ToNumericKeep(v) == v
\* pd.to_numeric(..., errors="coerce"): text that is no number becomes NaN
ToNumeric(v) == IF v = Malformed THEN NaN ELSE v
\* get_tasks, uncached body: numeric columns coerced, NaN filled with 0
FillNa0(v) == IF v = NaN THEN 0 ELSE v
GetTasksBody(file, ok) ==
    LET df == LoadFromGithub(file, ok)
    IN [i \in 1 .. Len(df) |->
           [df[i] EXCEPT !.duration_minutes = FillNa0(ToNumeric(@)),
                         !.cost = FillNa0(ToNumeric(@))]]

\* the git blob sha the contents API returns for a file: a function of the
\* content and of nothing else
BlobSha(rows) == rows
NoSha == [has |-> FALSE, blob |-> <<>>]

\* the contents API accepts a PUT that names the current blob sha of an
\* existing file, or names none for a file that does not exist
PutAccepted(file, sha) ==
    IF file.exists THEN sha.has /\ sha.blob = BlobSha(file.rows)
    ELSE ~sha.has

\* round(x, 2) of x = n/d cents: nearest cent, ties to even
RoundHalfEven(n, d) ==
    LET q == n \div d
        r == n % d
    IN IF 2 * r < d THEN q
       ELSE IF 2 * r > d THEN q + 1
       ELSE IF q % 2 = 0 THEN q ELSE q + 1

\* finish_btn: mins = (end - start).total_seconds() / 60
Mins(start, end) == (end - start) * TickMinutes
\* the cost cut to whole cents instead of rounded
CostTruncated(mins, rate) == (mins * rate) \div 60
\* finish_btn: cost = round((mins / 60) * rate, 2)
Cost(mins, rate) == RoundHalfEven(mins * rate, 60)

\* finish_btn: df.loc[df["task_id"] == active, [end_time, duration_minutes,
\* cost]] = [end, mins, cost], on every row that carries the id
FinishRows(df, tid, end, mins, cost) ==
    [i \in 1 .. Len(df) |->
        IF df[i].task_id = tid
        THEN [df[i] EXCEPT !.end_time = end, !.duration_minutes = mins,
                           !.cost = cost]
        ELSE df[i]]

\* start_form: the new task row
NewTask(tid, e, now) ==
    [task_id |-> tid, employee_id |-> e, start_time |-> now,
     end_time |-> NaN, duration_minutes |-> NaN, cost |-> NaN]

\* the first row of df with the given id (active_row.iloc[0])
RowOf(df, tid) == df[CHOOSE i \in 1 .. Len(df) : df[i].task_id = tid]

\* --------------------------------------------------------------- the cache
Miss == [hit |-> FALSE, df |-> <<>>]
Hit(df) == [hit |-> TRUE, df |-> df]
EmptyCache == [tasks |-> Miss, tasklist |-> Miss, employees |-> Miss]

\* get_tasks under st.cache_data: the cached frame, else the loaded one
GetTasks(ok) ==
    IF cache.tasks.hit THEN cache.tasks.df ELSE GetTasksBody(tasksFile, ok)

\* the cache after a get_tasks call
CacheTasks(ok) == [cache EXCEPT !.tasks = Hit(GetTasks(ok))]

\* get_employees without st.cache_data: the hourly_rate column of the file
LoadEmployees == hourly_rate

\* get_employees under st.cache_data: the cached frame, else the loaded one
GetEmployees ==
    IF cache.employees.hit THEN cache.employees.df ELSE LoadEmployees

\* the cache after a run of a page that calls get_employees() and
\* get_tasks(); the Employee Tasks page offers its forms only when emps is
\* not empty, so the load of the employees is one that succeeded
CachePage(ok) == [CacheTasks(ok) EXCEPT !.employees = Hit(GetEmployees)]

\* the deletes still unread after a get_tasks call
Unread == IF cache.tasks.hit THEN deleted ELSE {}

\* ------------------------------------------------------------------- state
NoPend == [op |-> "none", table |-> "none", content |-> <<>>, sha |-> NoSha,
           tid |-> NoTask, ids |-> {}, guard |-> FALSE]
Pending(op, table, content, tid, ids, guard) ==
    [op |-> op, table |-> table, content |-> content, sha |-> NoSha,
     tid |-> tid, ids |-> ids, guard |-> guard]

\* out is "ok" (success message), "disabled" (start button disabled),
\* "exists" (Task ID exists!), "noop" (No tasks deleted.), "none" (nothing
\* to do), "get_exception" / "put_exception" (Push failed: ...) or
\* "rejected" (the put was answered with an error status: no message)
NoReport == [s |-> "none", op |-> "none", out |-> "none", guard |-> FALSE]
Report(s, op, out, guard) == [s |-> s, op |-> op, out |-> out, guard |-> guard]

AbsentFile == [exists |-> FALSE, rows |-> <<>>]

Init ==
    /\ clock = 0
    /\ tasksFile = AbsentFile
    /\ tasklistFile = AbsentFile
    /\ cache = EmptyCache
    /\ active_task_id = [s \in Sessions |-> NoTask]
    /\ pc = [s \in Sessions |-> "idle"]
    /\ pend = [s \in Sessions |-> NoPend]
    /\ report = NoReport
    /\ issued = 0
    /\ seedPuts = 0
    /\ deleted = {}
    /\ TASKS_FILE = <<>>
    /\ hourly_rate = [e \in Employees |-> Rate(e)]
    /\ sheet = <<>>

\* ----------------------------------------------------------------- actions
\* datetime.now advances
Tick ==
    /\ clock < MaxClock
    /\ clock' = clock + 1
    /\ report' = NoReport
    /\ UNCHANGED <<tasksFile, tasklistFile, cache, active_task_id, pc, pend,
                   issued, seedPuts, deleted>>
    /\ UNCHANGED appVars

\* ttl=5 of st.cache_data runs out for one cached function
Expire(t) ==
    /\ cache[t].hit
    /\ cache' = [cache EXCEPT ![t] = Miss]
    /\ report' = NoReport
    /\ UNCHANGED <<clock, tasksFile, tasklistFile, active_task_id, pc, pend,
                   issued, seedPuts, deleted>>
    /\ UNCHANGED appVars

\* sidebar button "Force Refresh All Data": clear_cache()
ForceRefresh(s) ==
    /\ pc[s] = "idle"
    /\ cache # EmptyCache
    /\ cache' = EmptyCache
    /\ report' = NoReport
    /\ UNCHANGED <<clock, tasksFile, tasklistFile, active_task_id, pc, pend,
                   issued, seedPuts, deleted>>
    /\ UNCHANGED appVars

\* a page render reads the task table: tasks = get_tasks()
ListTasks(s, ok) ==
    /\ pc[s] = "idle"
    /\ ~cache.tasks.hit
    /\ cache' = CachePage(ok)
    /\ report' = NoReport
    /\ deleted' = Unread
    /\ UNCHANGED <<clock, tasksFile, tasklistFile, active_task_id, pc, pend,
                   issued, seedPuts>>
    /\ UNCHANGED appVars

\* start_form submitted while the button is disabled (a timer is running in
\* this session): nothing is written
StartDisabled(s) ==
    /\ pc[s] = "idle"
    /\ active_task_id[s] # NoTask
    /\ report' = Report(s, "start", "disabled", FALSE)
    /\ UNCHANGED <<clock, tasksFile, tasklistFile, cache, active_task_id, pc,
                   pend, issued, seedPuts, deleted>>
    /\ UNCHANGED appVars

\* start_form submitted: build the row, write_task_to_github up to the call
\* of _github_safe_put
StartBegin(s, e, ok) ==
    /\ pc[s] = "idle"
    /\ active_task_id[s] = NoTask
    /\ issued < MaxTasks
    /\ LET tid == issued + 1
           df == GetTasks(ok)
       IN /\ issued' = tid
          /\ cache' = CachePage(ok)
          /\ IF tid \in Ids(df)
             THEN /\ report' = Report(s, "start", "exists", FALSE)
                  /\ UNCHANGED <<pc, pend>>
             ELSE /\ pend' = [pend EXCEPT ![s] =
                        Pending("start", "tasks",
                                ToCsv(df \o <<NewTask(tid, e, clock)>>),
                                tid, {}, FALSE)]
                  /\ pc' = [pc EXCEPT ![s] = "get"]
                  /\ report' = NoReport
    /\ deleted' = Unread
    /\ UNCHANGED <<clock, tasksFile, tasklistFile, active_task_id, seedPuts>>
    /\ UNCHANGED appVars

\* FINISH TASK pressed on the active-task card: compute end, mins and cost
\* (the rate is the one in emps = get_employees() of the page load), update
\* the row in a copy of get_tasks(), up to the call of _github_safe_put
FinishBegin(s, ok) ==
    /\ pc[s] = "idle"
    /\ active_task_id[s] # NoTask
    /\ LET tid == active_task_id[s]
           emps == GetEmployees
           df == GetTasks(ok)
       IN /\ tid \in Ids(df)
          /\ LET active == RowOf(df, tid)
                 mins == Mins(active.start_time, clock)
                 rate == emps[active.employee_id]
                 cost == Cost(mins, rate)
             IN pend' = [pend EXCEPT ![s] =
                    Pending("finish", "tasks",
                            ToCsv(FinishRows(df, tid, clock, mins, cost)),
                            tid, {}, FALSE)]
    /\ cache' = CachePage(ok)
    /\ pc' = [pc EXCEPT ![s] = "get"]
    /\ report' = NoReport
    /\ deleted' = Unread
    /\ UNCHANGED <<clock, tasksFile, tasklistFile, active_task_id, issued,
                   seedPuts>>
    /\ UNCHANGED appVars

\* "Cancel Active Task" on the active-task card: only the session forgets
\* the task
CancelActive(s, ok) ==
    /\ pc[s] = "idle"
    /\ active_task_id[s] # NoTask
    /\ active_task_id[s] \in Ids(GetTasks(ok))
    /\ cache' = CachePage(ok)
    /\ active_task_id' = [active_task_id EXCEPT ![s] = NoTask]
    /\ report' = Report(s, "cancel", "ok", FALSE)
    /\ deleted' = Unread
    /\ UNCHANGED <<clock, tasksFile, tasklistFile, pc, pend, issued,
                   seedPuts>>
    /\ UNCHANGED appVars

\* "Clear Active Task", offered when the active row is not in get_tasks()
ClearActive(s, ok) ==
    /\ pc[s] = "idle"
    /\ active_task_id[s] # NoTask
    /\ active_task_id[s] \notin Ids(GetTasks(ok))
    /\ cache' = CachePage(ok)
    /\ active_task_id' = [active_task_id EXCEPT ![s] = NoTask]
    /\ report' = Report(s, "clear", "ok", FALSE)
    /\ deleted' = Unread
    /\ UNCHANGED <<clock, tasksFile, tasklistFile, pc, pend, issued,
                   seedPuts>>
    /\ UNCHANGED appVars

\* the checked rows with the active task left in
ToDeleteUnguarded(ids, active) == ids
\* "Delete Selected Tasks": the checked rows of the task log, minus the
\* session's active task
ToDelete(ids, active) == IF active \in ids THEN ids \ {active} ELSE ids

\* delete_tasks_from_github: the rows of get_tasks() that are kept
KeptRows(df, to_delete) == SelectRows(df, Ids(df) \ to_delete)

DeleteBegin(s, ids, ok) ==
    /\ pc[s] = "idle"
    /\ ids # {}
    /\ ids \subseteq Ids(GetTasks(ok))
    /\ cache' = CachePage(ok)
    /\ LET df == GetTasks(ok)
           guard == active_task_id[s] \in ids
           to_delete == ToDelete(ids, active_task_id[s])
           kept == KeptRows(df, to_delete)
       IN IF to_delete = {}
          THEN /\ report' = Report(s, "delete", "none", guard)
               /\ UNCHANGED <<pc, pend>>
          ELSE IF Len(kept) = Len(df)
          THEN /\ report' = Report(s, "delete", "noop", guard)
               /\ UNCHANGED <<pc, pend>>
          ELSE /\ pend' = [pend EXCEPT ![s] =
                     Pending("delete", "tasks", ToCsv(kept), NoTask, ids,
                             guard)]
               /\ pc' = [pc EXCEPT ![s] = "get"]
               /\ report' = NoReport
    /\ deleted' = Unread
    /\ UNCHANGED <<clock, tasksFile, tasklistFile, active_task_id, issued,
                   seedPuts>>
    /\ UNCHANGED appVars

\* Admin "Sync Tasks CSV": put get_tasks() back; the Admin page reads
\* get_employees() too, under the buttons, in every run that does not end
\* in the rerun of a save
SyncBegin(s, ok) ==
    /\ pc[s] = "idle"
    /\ pend' = [pend EXCEPT ![s] =
           Pending("sync", "tasks", ToCsv(GetTasks(ok)), NoTask, {}, FALSE)]
    /\ cache' = CachePage(ok)
    /\ pc' = [pc EXCEPT ![s] = "get"]
    /\ report' = NoReport
    /\ deleted' = Unread
    /\ UNCHANGED <<clock, tasksFile, tasklistFile, active_task_id, issued,
                   seedPuts>>
    /\ UNCHANGED appVars

\* get_tasklist on a cache miss: load the library; an empty frame is
\* replaced by the defaults, which write_tasklist_to_github then puts
GetTasklist(s, ok) ==
    /\ pc[s] = "idle"
    /\ ~cache.tasklist.hit
    /\ LET df == IF ok /\ tasklistFile.exists THEN tasklistFile.rows
                 ELSE <<>>
       IN IF df = <<>>
          THEN /\ pend' = [pend EXCEPT ![s] =
                      Pending("seed", "tasklist", DefaultTaskTypes, NoTask,
                              {}, FALSE)]
               /\ pc' = [pc EXCEPT ![s] = "get"]
               /\ UNCHANGED cache
          ELSE /\ cache' = [cache EXCEPT !.tasklist = Hit(df)]
               /\ UNCHANGED <<pc, pend>>
    /\ report' = NoReport
    /\ UNCHANGED <<clock, tasksFile, tasklistFile, active_task_id, issued,
                   seedPuts, deleted>>
    /\ UNCHANGED appVars

\* tasklist[tasklist["task_type_id"] != tid] followed by the new row
UpsertTaskType(tasklist, new_row) ==
    Append(SelectSeq(tasklist,
                     LAMBDA r : r.task_type_id # new_row.task_type_id),
           new_row)

\* add_task_type submitted on the Task Library page: the row replaces the
\* rows of its id in the frame get_tasklist() returned to the page, up to
\* the call of _github_safe_put in write_tasklist_to_github
AddTaskType(s, tid, task_name) ==
    /\ pc[s] = "idle"
    /\ cache.tasklist.hit
    /\ LET new_row == [task_type_id |-> tid, task_name |-> task_name]
       IN pend' = [pend EXCEPT ![s] =
              Pending("upsert", "tasklist",
                      UpsertTaskType(cache.tasklist.df, new_row), NoTask, {},
                      FALSE)]
    /\ pc' = [pc EXCEPT ![s] = "get"]
    /\ report' = NoReport
    /\ UNCHANGED <<clock, tasksFile, tasklistFile, cache, active_task_id,
                   issued, seedPuts, deleted>>
    /\ UNCHANGED appVars

\* the file a pending put is aimed at
FileOf(t) == IF t = "tasks" THEN tasksFile ELSE tasklistFile

\* the outcomes of a handler that put a message on the page: a put answered
\* with an error status makes _github_safe_put return False without one, and
\* no caller has an else branch
ShowsMessage(out) == out \notin {"rejected", "none"}

\* what the caller of _github_safe_put does when it returned False: nothing
\* (the exception, if any, was shown by _github_safe_put); get_tasklist goes
\* on to return the defaults, which st.cache_data then keeps
AfterFailure(s, out) ==
    /\ pc' = [pc EXCEPT ![s] = "idle"]
    /\ pend' = [pend EXCEPT ![s] = NoPend]
    /\ report' = Report(s, pend[s].op, out, pend[s].guard)
    /\ cache' = IF pend[s].op = "seed"
                THEN [cache EXCEPT !.tasklist = Hit(DefaultTaskTypes)]
                ELSE cache
    /\ UNCHANGED <<clock, tasksFile, tasklistFile, active_task_id, issued,
                   seedPuts, deleted>>

\* a caller of _github_safe_put that goes on without clear_cache()
AfterSuccessKeepsCache(s) ==
    /\ pc' = [pc EXCEPT ![s] = "idle"]
    /\ pend' = [pend EXCEPT ![s] = NoPend]
    /\ report' = Report(s, pend[s].op, "ok", pend[s].guard)
    /\ active_task_id' =
           IF pend[s].op = "start"
           THEN [active_task_id EXCEPT ![s] = pend[s].tid]
           ELSE IF pend[s].op = "finish"
           THEN [active_task_id EXCEPT ![s] = NoTask]
           ELSE active_task_id
    /\ UNCHANGED <<clock, cache, issued, seedPuts, deleted>>

\* what the caller of _github_safe_put does when it returned True:
\* clear_cache() in every caller, then the session state of the operation;
\* write_tasklist_to_github ends in st.rerun(), which leaves get_tasklist
\* before it returns, so the defaults of a seed are not cached
AfterSuccess(s) ==
    /\ pc' = [pc EXCEPT ![s] = "idle"]
    /\ pend' = [pend EXCEPT ![s] = NoPend]
    /\ report' = Report(s, pend[s].op, "ok", pend[s].guard)
    /\ cache' = EmptyCache
    /\ active_task_id' =
           IF pend[s].op = "start"
           THEN [active_task_id EXCEPT ![s] = pend[s].tid]
           ELSE IF pend[s].op = "finish"
           THEN [active_task_id EXCEPT ![s] = NoTask]
           ELSE active_task_id
    /\ deleted' = IF pend[s].op = "delete"
                  THEN deleted \cup (ToDelete(pend[s].ids, active_task_id[s])
                                       \cap CompletedIds(tasksFile.rows))
                  ELSE deleted
    /\ seedPuts' = IF pend[s].op = "seed" /\ seedPuts < 2
                   THEN seedPuts + 1 ELSE seedPuts
    /\ UNCHANGED <<clock, issued>>

\* _github_safe_put, first call: requests.get of the file, for its sha
SafePutGet(s, ok) ==
    /\ pc[s] = "get"
    /\ IF ok
       THEN /\ pend' = [pend EXCEPT ![s].sha =
                   IF FileOf(pend[s].table).exists
                   THEN [has |-> TRUE,
                         blob |-> BlobSha(FileOf(pend[s].table).rows)]
                   ELSE NoSha]
            /\ pc' = [pc EXCEPT ![s] = "put"]
            /\ report' = NoReport
            /\ UNCHANGED <<clock, tasksFile, tasklistFile, cache,
                           active_task_id, issued, seedPuts, deleted>>
       ELSE AfterFailure(s, "get_exception")
    /\ UNCHANGED appVars

\* _github_safe_put, second call: requests.put of the whole file with the
\* sha of the first call; True on 200 or 201
SafePutPut(s, ok) ==
    /\ pc[s] = "put"
    /\ IF ~ok
       THEN AfterFailure(s, "put_exception")
       ELSE IF ~PutAccepted(FileOf(pend[s].table), pend[s].sha)
       THEN AfterFailure(s, "rejected")
       ELSE /\ tasksFile' = IF pend[s].table = "tasks"
                            THEN [exists |-> TRUE, rows |-> pend[s].content]
                            ELSE tasksFile
            /\ tasklistFile' = IF pend[s].table = "tasklist"
                               THEN [exists |-> TRUE,
                                     rows |-> pend[s].content]
                               ELSE tasklistFile
            /\ AfterSuccess(s)
    /\ UNCHANGED appVars

\* The sessions' operations on the task table over a transport that does
\* not fail, at one reading of the clock
Next ==
    \/ Expire("tasks")
    \/ \E s \in Sessions : ForceRefresh(s)
    \/ \E s \in Sessions : ListTasks(s, TRUE)
    \/ \E s \in Sessions : StartDisabled(s)
    \/ \E s \in Sessions, e \in Employees : StartBegin(s, e, TRUE)
    \/ \E s \in Sessions : FinishBegin(s, TRUE)
    \/ \E s \in Sessions : CancelActive(s, TRUE)
    \/ \E s \in Sessions : ClearActive(s, TRUE)
    \/ \E s \in Sessions, ids \in SUBSET TaskIds : DeleteBegin(s, ids, TRUE)
    \/ \E s \in Sessions : SyncBegin(s, TRUE)
    \/ \E s \in Sessions : SafePutGet(s, TRUE)
    \/ \E s \in Sessions : SafePutPut(s, TRUE)

Spec == Init /\ [][Next]_vars

\* The timer operations on the tasks of one employee, over a transport
\* that may fail at every call
NextFaults ==
    \/ Expire("tasks")
    \/ \E s \in Sessions : ForceRefresh(s)
    \/ \E s \in Sessions, ok \in BOOLEAN : ListTasks(s, ok)
    \/ \E s \in Sessions : StartDisabled(s)
    \/ \E s \in Sessions, ok \in BOOLEAN : StartBegin(s, "E1", ok)
    \/ \E s \in Sessions, ok \in BOOLEAN : FinishBegin(s, ok)
    \/ \E s \in Sessions, ok \in BOOLEAN : CancelActive(s, ok)
    \/ \E s \in Sessions, ok \in BOOLEAN : ClearActive(s, ok)
    \/ \E s \in Sessions, ids \in SUBSET TaskIds, ok \in BOOLEAN :
           DeleteBegin(s, ids, ok)
    \/ \E s \in Sessions, ok \in BOOLEAN : SafePutGet(s, ok)
    \/ \E s \in Sessions, ok \in BOOLEAN : SafePutPut(s, ok)

SpecFaults == Init /\ [][NextFaults]_vars

\* One session, with the clock running, over a transport that may fail
NextClock ==
    \/ Tick
    \/ Expire("tasks")
    \/ ForceRefresh("s1")
    \/ \E ok \in BOOLEAN : ListTasks("s1", ok)
    \/ StartDisabled("s1")
    \/ \E e \in Employees, ok \in BOOLEAN : StartBegin("s1", e, ok)
    \/ \E ok \in BOOLEAN : FinishBegin("s1", ok)
    \/ \E ok \in BOOLEAN : CancelActive("s1", ok)
    \/ \E ok \in BOOLEAN : ClearActive("s1", ok)
    \/ \E ids \in SUBSET TaskIds, ok \in BOOLEAN : DeleteBegin("s1", ids, ok)
    \/ \E ok \in BOOLEAN : SyncBegin("s1", ok)
    \/ \E ok \in BOOLEAN : SafePutGet("s1", ok)
    \/ \E ok \in BOOLEAN : SafePutPut("s1", ok)

SpecClock == Init /\ [][NextClock]_vars

\* The task-type library
NextSeed ==
    \/ Expire("tasklist")
    \/ \E s \in Sessions : ForceRefresh(s)
    \/ \E s \in Sessions, ok \in BOOLEAN : GetTasklist(s, ok)
    \/ \E s \in Sessions, ok \in BOOLEAN : SafePutGet(s, ok)
    \/ \E s \in Sessions, ok \in BOOLEAN : SafePutPut(s, ok)

SpecSeed == Init /\ [][NextSeed]_vars

\* The task-type library with its editor
NextLibrary ==
    \/ Expire("tasklist")
    \/ \E s \in Sessions, ok \in BOOLEAN : GetTasklist(s, ok)
    \/ \E s \in Sessions, tid \in TaskTypeIds, task_name \in TaskNames :
           AddTaskType(s, tid, task_name)
    \/ \E s \in Sessions, ok \in BOOLEAN : SafePutGet(s, ok)
    \/ \E s \in Sessions, ok \in BOOLEAN : SafePutPut(s, ok)

SpecLibrary == Init /\ [][NextLibrary]_vars

\* Every operation that saves a table, in one session, with the reads of
\* both sessions, over a transport that may fail
NextSave ==
    \/ \E t \in {"tasks", "tasklist"} : Expire(t)
    \/ \E s \in Sessions, ok \in BOOLEAN : ListTasks(s, ok)
    \/ \E ok \in BOOLEAN : GetTasklist("s1", ok)
    \/ \E ok \in BOOLEAN : StartBegin("s1", "E1", ok)
    \/ \E ok \in BOOLEAN : FinishBegin("s1", ok)
    \/ \E ids \in SUBSET TaskIds, ok \in BOOLEAN : DeleteBegin("s1", ids, ok)
    \/ \E ok \in BOOLEAN : SyncBegin("s1", ok)
    \/ AddTaskType("s1", "TT_NEW", "Splice Fiber")
    \/ \E ok \in BOOLEAN : SafePutGet("s1", ok)
    \/ \E ok \in BOOLEAN : SafePutPut("s1", ok)

SpecSave == Init /\ [][NextSave]_vars

\* a reading of the clock later, which is more than the five seconds of
\* ttl=5: every entry of st.cache_data has run out
TtlTick ==
    /\ clock < MaxClock
    /\ clock' = clock + 1
    /\ cache' = EmptyCache
    /\ report' = NoReport
    /\ UNCHANGED <<tasksFile, tasklistFile, active_task_id, pc, pend, issued,
                   seedPuts, deleted>>
    /\ UNCHANGED appVars

\* a run of the Employee Tasks page that loads the employees:
\* emps = get_employees(), tasks = get_tasks()
RenderEmployeeTasks(s, ok) ==
    /\ pc[s] = "idle"
    /\ ~cache.employees.hit
    /\ cache' = CachePage(ok)
    /\ report' = NoReport
    /\ deleted' = Unread
    /\ UNCHANGED <<clock, tasksFile, tasklistFile, active_task_id, pc, pend,
                   issued, seedPuts>>
    /\ UNCHANGED appVars

\* the file named by emp_file gets a new hourly_rate for an employee; the
\* program has no form that writes an employee, the file is kept in the
\* repository it is read from
CommitEmployees(e, r) ==
    /\ r # hourly_rate[e]
    /\ hourly_rate' = [hourly_rate EXCEPT ![e] = r]
    /\ report' = NoReport
    /\ UNCHANGED <<clock, tasksFile, tasklistFile, cache, active_task_id, pc,
                   pend, issued, seedPuts, deleted, TASKS_FILE, sheet>>

\* One session's timer and the employees file, with the clock running,
\* over a transport that does not fail
NextRate ==
    \/ TtlTick
    \/ \E t \in {"tasks", "employees"} : Expire(t)
    \/ RenderEmployeeTasks("s1", TRUE)
    \/ \E r \in Rates : CommitEmployees("E1", r)
    \/ StartBegin("s1", "E1", TRUE)
    \/ FinishBegin("s1", TRUE)
    \/ SafePutGet("s1", TRUE)
    \/ SafePutPut("s1", TRUE)

SpecRate == Init /\ [][NextRate]_vars

\* ------------------------------------------------------------- src/app.py
\* Every handler of src/app.py reads and writes local files only and ends
\* with the refresh of the cache it wrote to, so a handler is one step and
\* get_tasks() is the file.  Two handlers that run at the same reading of
\* the clock run within the same second.

\* the state of src/app_original.py that src/app.py does not have
originalVars == <<tasklistFile, cache, pc, pend, seedPuts, deleted>>

\* get_tasks() of src/app.py: load_csv(TASKS_FILE, TASK_COLUMNS)
AppGetTasks == ReadCsv(TASKS_FILE)

\* start_task_form: tid = f"T{int(start_time.timestamp())}"
AppTaskId(now) == now + 1

\* start_task_form without its check of the session's running task
AppStartUnchecked(s) ==
    /\ active_task_id[s] # NoTask
    /\ issued < MaxTasks
    /\ issued' = issued + 1
    /\ TASKS_FILE' =
           ToCsv(AppGetTasks \o <<NewTask(AppTaskId(clock), "E1", clock)>>)
    /\ active_task_id' = [active_task_id EXCEPT ![s] = AppTaskId(clock)]
    /\ report' = Report(s, "start", "ok", FALSE)
    /\ UNCHANGED <<clock, tasksFile, hourly_rate, sheet>>
    /\ UNCHANGED originalVars

\* start_task_form submitted while a task is running in this session
AppStartRejected(s) ==
    /\ active_task_id[s] # NoTask
    /\ report' = Report(s, "start", "already_running", FALSE)
    /\ UNCHANGED <<clock, tasksFile, active_task_id, issued>>
    /\ UNCHANGED appVars
    /\ UNCHANGED originalVars

\* start_task_form submitted: the new row is appended to the local file
AppStart(s, e) ==
    /\ active_task_id[s] = NoTask
    /\ issued < MaxTasks
    /\ issued' = issued + 1
    /\ TASKS_FILE' =
           ToCsv(AppGetTasks \o <<NewTask(AppTaskId(clock), e, clock)>>)
    /\ active_task_id' = [active_task_id EXCEPT ![s] = AppTaskId(clock)]
    /\ report' = Report(s, "start", "ok", FALSE)
    /\ UNCHANGED <<clock, tasksFile, hourly_rate, sheet>>
    /\ UNCHANGED originalVars

\* Active Task block: the session's task is not in the table
AppReset(s) ==
    /\ active_task_id[s] # NoTask
    /\ active_task_id[s] \notin Ids(AppGetTasks)
    /\ active_task_id' = [active_task_id EXCEPT ![s] = NoTask]
    /\ report' = Report(s, "finish", "not_found", FALSE)
    /\ UNCHANGED <<clock, tasksFile, issued>>
    /\ UNCHANGED appVars
    /\ UNCHANGED originalVars

\* finish_btn: end, minutes and cost are set on every row that carries the
\* active id, the completed row goes to write_task_to_storage (store names
\* the remote store that took it), the table is saved
AppFinish(s, store) ==
    /\ active_task_id[s] # NoTask
    /\ active_task_id[s] \in Ids(AppGetTasks)
    /\ LET tid == active_task_id[s]
           tasks == AppGetTasks
           row == RowOf(tasks, tid)
           minutes == Mins(row.start_time, clock)
           cost == Cost(minutes, hourly_rate[row.employee_id])
           done == FinishRows(tasks, tid, clock, minutes, cost)
           completed_task_row == RowOf(done, tid)
       IN /\ TASKS_FILE' = ToCsv(done)
          /\ sheet' = IF store = "sheets"
                      THEN Append(sheet, completed_task_row)
                      ELSE sheet
          /\ tasksFile' =
                 IF store = "github"
                 THEN [exists |-> TRUE,
                       rows |-> ToCsv(ReadCsv(tasksFile.rows)
                                      \o <<completed_task_row>>)]
                 ELSE tasksFile
    /\ active_task_id' = [active_task_id EXCEPT ![s] = NoTask]
    /\ report' = Report(s, "finish",
                        IF store = "none" THEN "local_only" ELSE "ok", FALSE)
    /\ UNCHANGED <<clock, issued, hourly_rate>>
    /\ UNCHANGED originalVars

\* write_task_to_github without the rows it fetched
ReplaceByTask(df, task_data) == <<task_data>>

\* write_task_to_github: pd.concat([df, new_row], ignore_index=True)
AppendTask(df, task_data) == df \o <<task_data>>

\* write_task_to_storage calling write_task_to_github whatever the Sheets
\* write returned
TriesGithubAlways(success) == TRUE

\* write_task_to_storage: "if not success:" in front of the GitHub write
TriesGithub(success) == ~success

\* the locals of a finish_btn run that is inside write_task_to_storage:
\* tasks is the page's frame with the row completed, task_data the
\* completed row, success the local of write_task_to_storage, fetched and
\* sha the content and sha of the GET of write_task_to_github
AppPending(tid, tasks, task_data) ==
    [op |-> "app_finish", table |-> "tasks", content |-> <<>>,
     sha |-> NoSha, tid |-> tid, ids |-> {}, guard |-> FALSE,
     tasks |-> tasks, task_data |-> task_data, success |-> FALSE,
     fetched |-> <<>>]

\* finish_btn, taken call by call.  Up to the call of
\* write_task_to_storage: end, minutes and cost are set on every row of the
\* page's frame that carries the active id
AppFinishBegin(s) ==
    /\ pc[s] = "idle"
    /\ active_task_id[s] # NoTask
    /\ active_task_id[s] \in Ids(AppGetTasks)
    /\ LET tid == active_task_id[s]
           tasks == AppGetTasks
           row == RowOf(tasks, tid)
           minutes == Mins(row.start_time, clock)
           cost == Cost(minutes, hourly_rate[row.employee_id])
           done == FinishRows(tasks, tid, clock, minutes, cost)
           completed_task_row == RowOf(done, tid)
       IN pend' = [pend EXCEPT ![s] =
              AppPending(tid, done, completed_task_row)]
    /\ pc' = [pc EXCEPT ![s] = "sheets"]
    /\ report' = NoReport
    /\ UNCHANGED <<clock, tasksFile, tasklistFile, cache, active_task_id,
                   issued, seedPuts, deleted>>
    /\ UNCHANGED appVars

\* finish_btn after write_task_to_storage returned: save_csv(tasks,
\* TASKS_FILE), refresh_tasks_cache(), active_task_id = None
AppFinishEnd(s, success) ==
    /\ TASKS_FILE' = ToCsv(pend[s].tasks)
    /\ active_task_id' = [active_task_id EXCEPT ![s] = NoTask]
    /\ pc' = [pc EXCEPT ![s] = "idle"]
    /\ pend' = [pend EXCEPT ![s] = NoPend]
    /\ report' = Report(s, "finish",
                        IF success THEN "ok" ELSE "local_only", FALSE)

\* write_task_to_gsheet_api: the append to the worksheet; False when the
\* libraries or the secrets are missing or a call raised
AppSheetsWrite(s, ok) ==
    /\ pc[s] = "sheets"
    /\ sheet' = IF ok THEN Append(sheet, pend[s].task_data) ELSE sheet
    /\ IF TriesGithub(ok)
       THEN /\ pend' = [pend EXCEPT ![s].success = ok]
            /\ pc' = [pc EXCEPT ![s] = "gh_get"]
            /\ report' = NoReport
            /\ UNCHANGED <<TASKS_FILE, active_task_id>>
       ELSE AppFinishEnd(s, ok)
    /\ UNCHANGED <<clock, tasksFile, tasklistFile, cache, issued, seedPuts,
                   deleted, hourly_rate>>

\* write_task_to_github, requests.get: content and sha of the file on 200,
\* an empty frame on 404, False on another status or an exception; stringio
\* says whether pd.StringIO exists in the pandas of the build, without it
\* the read of a file that exists raises
AppGithubGet(s, ok, stringio) ==
    /\ pc[s] = "gh_get"
    /\ IF ok /\ (tasksFile.exists => stringio)
       THEN /\ pend' = [pend EXCEPT
                   ![s].fetched = IF tasksFile.exists THEN tasksFile.rows
                                  ELSE <<>>,
                   ![s].sha = IF tasksFile.exists
                              THEN [has |-> TRUE,
                                    blob |-> BlobSha(tasksFile.rows)]
                              ELSE NoSha]
            /\ pc' = [pc EXCEPT ![s] = "gh_put"]
            /\ report' = NoReport
            /\ UNCHANGED <<TASKS_FILE, active_task_id>>
       ELSE AppFinishEnd(s, pend[s].success)
    /\ UNCHANGED <<clock, tasksFile, tasklistFile, cache, issued, seedPuts,
                   deleted, hourly_rate, sheet>>

\* write_task_to_github, requests.put of the fetched rows and the new row
\* with the fetched sha; True on 200 or 201
AppGithubPut(s, ok) ==
    /\ pc[s] = "gh_put"
    /\ LET df == ReadCsv(pend[s].fetched)
           content == ToCsv(AppendTask(df, pend[s].task_data))
       IN IF ok /\ PutAccepted(tasksFile, pend[s].sha)
          THEN /\ tasksFile' = [exists |-> TRUE, rows |-> content]
               /\ AppFinishEnd(s, TRUE)
          ELSE /\ tasksFile' = tasksFile
               /\ AppFinishEnd(s, pend[s].success)
    /\ UNCHANGED <<clock, tasklistFile, cache, issued, seedPuts, deleted,
                   hourly_rate, sheet>>

\* edit_employee_form: Update Employee
AppEditEmployee(e, r) ==
    /\ r # hourly_rate[e]
    /\ hourly_rate' = [hourly_rate EXCEPT ![e] = r]
    /\ report' = Report("admin", "employee", "ok", FALSE)
    /\ UNCHANGED <<clock, tasksFile, active_task_id, issued, TASKS_FILE,
                   sheet>>
    /\ UNCHANGED originalVars

\* df.drop(index=delete_indices)
DropRows(df, delete_indices) ==
    LET F[i \in 0 .. Len(df)] ==
            IF i = 0 THEN <<>>
            ELSE IF i \in delete_indices THEN F[i - 1]
            ELSE Append(F[i - 1], df[i])
    IN F[Len(df)]

\* save_task_changes with no cell edited: every listed row (the rows with a
\* duration) that is not marked for deletion gets its cost computed again
\* from its duration and the employee's rate, the marked rows are dropped
AppSaveTaskChanges(delete_indices) ==
    /\ LET df == AppGetTasks
           df_filtered == {i \in 1 .. Len(df) : df[i].duration_minutes # NaN}
           recosted ==
               [i \in 1 .. Len(df) |->
                   IF i \in df_filtered \ delete_indices
                   THEN [df[i] EXCEPT !.cost =
                            Cost(df[i].duration_minutes,
                                 hourly_rate[df[i].employee_id])]
                   ELSE df[i]]
       IN /\ df_filtered # {}
          /\ delete_indices \subseteq df_filtered
          /\ TASKS_FILE' = ToCsv(DropRows(recosted, delete_indices))
    /\ report' = Report("admin", "save", "ok", FALSE)
    /\ UNCHANGED <<clock, tasksFile, active_task_id, issued, hourly_rate,
                   sheet>>
    /\ UNCHANGED originalVars

\* the cells of a listed row the raw task editor lets an admin change
\* (editable_cols), with the values an admin may enter: a time, an emptied
\* end_time, a number of minutes
EditedCells ==
    ({"start_time"} \X (0 .. MaxClock))
    \cup ({"end_time"} \X ((0 .. MaxClock) \cup {NaN}))
    \cup ({"duration_minutes"} \X {0, TickMinutes})

\* save_task_changes after one cell of the raw task editor was edited: the
\* cells of every listed row are copied into the table, the edited one
\* included, the cost of every listed row with a duration is computed again,
\* the table is saved
AppSaveTaskEdit(i, col, v) ==
    /\ LET df == AppGetTasks
           df_filtered == {k \in 1 .. Len(df) : df[k].duration_minutes # NaN}
           edited == [df EXCEPT ![i] = [df[i] EXCEPT ![col] = v]]
           recosted ==
               [k \in 1 .. Len(df) |->
                   IF k \in df_filtered /\ edited[k].duration_minutes # NaN
                   THEN [edited[k] EXCEPT !.cost =
                            Cost(edited[k].duration_minutes,
                                 hourly_rate[edited[k].employee_id])]
                   ELSE edited[k]]
       IN /\ i \in df_filtered
          /\ df[i][col] # v
          /\ TASKS_FILE' = ToCsv(recosted)
    /\ report' = Report("admin", "save", "ok", FALSE)
    /\ UNCHANGED <<clock, tasksFile, active_task_id, issued, hourly_rate,
                   sheet>>
    /\ UNCHANGED originalVars

\* The timer and the admin editors of src/app.py
NextApp ==
    \/ Tick
    \/ \E s \in Sessions : AppStartRejected(s)
    \/ \E s \in Sessions, e \in Employees : AppStart(s, e)
    \/ \E s \in Sessions : AppReset(s)
    \/ \E s \in Sessions, store \in {"sheets", "github", "none"} :
           AppFinish(s, store)
    \/ \E e \in Employees, r \in Rates : AppEditEmployee(e, r)
    \/ \E delete_indices \in SUBSET (1 .. MaxTasks) :
           AppSaveTaskChanges(delete_indices)

SpecApp == Init /\ [][NextApp]_vars

\* The timer of src/app.py with the hourly rates left as they are and no
\* remote store configured
NextAppTimer ==
    \/ Tick
    \/ \E s \in Sessions : AppStartRejected(s)
    \/ \E s \in Sessions, e \in Employees : AppStart(s, e)
    \/ \E s \in Sessions : AppReset(s)
    \/ \E s \in Sessions : AppFinish(s, "none")
    \/ \E delete_indices \in SUBSET (1 .. MaxTasks) :
           AppSaveTaskChanges(delete_indices)

SpecAppTimer == Init /\ [][NextAppTimer]_vars

\* The timer of src/app.py and the raw task editor of its Reports page, at
\* one reading of the clock
NextAppEditor ==
    \/ \E s \in Sessions : AppStart(s, "E1")
    \/ \E s \in Sessions : AppFinish(s, "none")
    \/ \E i \in 1 .. MaxTasks, cell \in EditedCells :
           AppSaveTaskEdit(i, cell[1], cell[2])

SpecAppEditor == Init /\ [][NextAppEditor]_vars

\* The timer of src/app.py with its remote stores: finish_btn call by
\* call, each remote call failing or not
NextAppStorage ==
    \/ Tick
    \/ \E s \in Sessions : AppStart(s, "E1")
    \/ \E s \in Sessions : AppFinishBegin(s)
    \/ \E s \in Sessions, ok \in BOOLEAN : AppSheetsWrite(s, ok)
    \/ \E s \in Sessions, ok \in BOOLEAN, stringio \in BOOLEAN :
           AppGithubGet(s, ok, stringio)
    \/ \E s \in Sessions, ok \in BOOLEAN : AppGithubPut(s, ok)

SpecAppStorage == Init /\ [][NextAppStorage]_vars

\* A tasks.csv edited by hand in the repository: rows whose numeric cells may
\* be empty or hold text, with or without the cost column
RawCosts == {Blank, 1500}
RawTables ==
    UNION {
        {rows \in [1 .. n -> [task_id : TaskIds, employee_id : {"E1"},
                              start_time : {0}, end_time : {Blank, 1},
                              duration_minutes : {Blank, Malformed, TickMinutes},
                              cost : RawCosts \cup {Missing}]] :
            /\ \A i \in 1 .. n : rows[i].task_id = i
            /\ \A i, j \in 1 .. n :
                   rows[i].cost = Missing <=> rows[j].cost = Missing}
        : n \in 1 .. MaxTasks}

InitRaw ==
    /\ clock = 0
    /\ tasksFile \in {[exists |-> TRUE, rows |-> rows] : rows \in RawTables}
    /\ tasklistFile = AbsentFile
    /\ cache = EmptyCache
    /\ active_task_id = [s \in Sessions |-> NoTask]
    /\ pc = [s \in Sessions |-> "idle"]
    /\ pend = [s \in Sessions |-> NoPend]
    /\ report = NoReport
    /\ issued = 0
    /\ seedPuts = 0
    /\ deleted = {}
    /\ TASKS_FILE = <<>>
    /\ hourly_rate = [e \in Employees |-> Rate(e)]
    /\ sheet = <<>>

\* Loads of a hand-edited task table
NextNormalize ==
    \/ Expire("tasks")
    \/ \E s \in Sessions : ListTasks(s, TRUE)

SpecNormalize == InitRaw /\ [][NextNormalize]_vars

\* ---------------------------------------------------------------- properties
\* some row of the CSV rows belongs to employee e and has no end_time
HasActiveRow(rows, e) ==
    \E i \in 1 .. Len(rows) :
        rows[i].employee_id = e /\ rows[i].end_time = Blank

\* the row of the CSV rows that carries task id t
CsvRow(rows, t) == rows[CHOOSE i \in 1 .. Len(rows) : rows[i].task_id = t]

\* C1: at every moment the task table holds at most one Active row (a row
\* without end_time) per employee.
C1_SingleActiveTimer ==
    \A i, j \in 1 .. Len(tasksFile.rows) :
        (/\ i # j
         /\ tasksFile.rows[i].employee_id = tasksFile.rows[j].employee_id
         /\ tasksFile.rows[i].end_time = Blank)
        => tasksFile.rows[j].end_time # Blank

\* C2: a start for an employee for whom the task table already holds an Active
\* row is rejected whichever session wrote that row: the start does not go on
\* to write, and no put of a start adds a second Active row for the employee.
C2_StartRejectedWhenActive ==
    [][\A s \in Sessions :
          /\ (pc[s] = "idle" /\ pc'[s] = "get" /\ pend'[s].op = "start")
             => ~HasActiveRow(tasksFile.rows,
                     pend'[s].content[Len(pend'[s].content)].employee_id)
          /\ (pc[s] = "put" /\ pend[s].op = "start" /\ pc'[s] = "idle"
              /\ HasActiveRow(tasksFile.rows,
                     pend[s].content[Len(pend[s].content)].employee_id))
             => tasksFile' = tasksFile]_vars

\* C3: saves merge by row: when a session's start or finish is written, every
\* task that was in the table is still in it, and every Completed row keeps
\* its end_time, duration and cost, so no other writer's change is lost.
C3_NoLostUpdate ==
    [][\A s \in Sessions :
          (pc[s] = "put" /\ pend[s].op \in {"start", "finish"}
           /\ report'.s = s /\ report'.out = "ok")
          => \A t \in Ids(tasksFile.rows) :
                 /\ t \in Ids(tasksFile'.rows)
                 /\ (t # pend[s].tid /\ t \in CompletedIds(tasksFile.rows))
                    => CsvRow(tasksFile'.rows, t) = CsvRow(tasksFile.rows, t)]_vars

\* C4: a save whose put is answered with a conflict tries again (re-fetch,
\* re-merge, put) instead of ending: it ends in failure only after the retry
\* bound of three attempts, so two conflicts followed by an accepted put end
\* in success.
C4_ConflictIsRetried ==
    [][\A s \in Sessions :
          (pc[s] = "put" /\ pc'[s] = "idle")
          => PutAccepted(FileOf(pend[s].table), pend[s].sha)]_vars

\* C5: a save whose row-set is identical to the remote content it fetched
\* issues no put (it reports NoOp, not a write), the Sync operations included.
C5_IdenticalSaveIsNoOp ==
    \A s \in Sessions :
        pc[s] = "put" => ~(pend[s].sha.has /\ pend[s].content = pend[s].sha.blob)

\* C6: cancelling the Active task removes its row from the task table.
C6_CancelRemovesRow ==
    [][\A s \in Sessions :
          (active_task_id[s] # NoTask /\ report'.s = s /\ report'.op = "cancel")
          => active_task_id[s] \notin Ids(tasksFile'.rows)]_vars

C8_DeletedStaysDeleted ==
    \A t \in deleted : t \notin Ids(GetTasks(TRUE))

\* C9: the default task types are persisted exactly once: a load that finds
\* the library empty seeds it, and no second put of the defaults is accepted;
\* a load that has returned holds a non-empty library.
C9_SeededExactlyOnce ==
    /\ seedPuts <= 1
    /\ cache.tasklist.hit => cache.tasklist.df # <<>>

\* C10: every Completed row written by finish has duration_minutes equal to
\* the minutes between start_time and end_time and cost equal to
\* duration/60 * hourly rate rounded to the nearest cent; 90 minutes at a
\* rate of 20.00 cost 30.00.
C10_FinishCost ==
    \A i \in 1 .. Len(tasksFile.rows) :
        LET r == tasksFile.rows[i]
            due == r.duration_minutes * Rate(r.employee_id)
        IN r.end_time # Blank
           => /\ r.duration_minutes = (r.end_time - r.start_time) * TickMinutes
              /\ 60 * r.cost - due <= 30
              /\ due - 60 * r.cost <= 30
              /\ (r.duration_minutes = 90 /\ Rate(r.employee_id) = 2000)
                 => r.cost = 3000

\* C10 witness: a task of 90 minutes at 20.00 an hour was finished at 30.00
C10_Witness ==
    \E i \in 1 .. Len(tasksFile.rows) :
        /\ tasksFile.rows[i].end_time # Blank
        /\ tasksFile.rows[i].employee_id = "E1"
        /\ tasksFile.rows[i].duration_minutes = 90
        /\ tasksFile.rows[i].cost = 3000

\* C11: loading a task table with a row that lacks the cost column and has a
\* malformed duration_minutes never fails: the row is loaded with cost 0 and
\* duration_minutes 0, every row of the file is loaded, and the well-formed
\* durations are kept.
C11_NormalizerTolerant ==
    cache.tasks.hit =>
        LET df == cache.tasks.df
            raw == tasksFile.rows
        IN /\ Len(df) = Len(raw)
           /\ \A i \in 1 .. Len(raw) :
                  /\ df[i].task_id = raw[i].task_id
                  /\ df[i].duration_minutes >= 0
                  /\ df[i].cost >= 0
                  /\ raw[i].cost = Missing => df[i].cost = 0
                  /\ raw[i].duration_minutes = Malformed
                     => df[i].duration_minutes = 0
                  /\ raw[i].duration_minutes = TickMinutes
                     => df[i].duration_minutes = TickMinutes

\* C11 witness: a loaded table of two rows, the first without cost and with a
\* malformed duration, the second well-formed
C11_Witness ==
    /\ cache.tasks.hit
    /\ Len(tasksFile.rows) = 2
    /\ tasksFile.rows[1].cost = Missing
    /\ tasksFile.rows[1].duration_minutes = Malformed
    /\ tasksFile.rows[2].duration_minutes = TickMinutes
    /\ cache.tasks.df[1].duration_minutes = 0
    /\ cache.tasks.df[2].duration_minutes = TickMinutes

\* C12: every row of the stored task table is either Active (end_time,
\* duration_minutes and cost all empty) or Completed (all three set, and
\* end_time not before start_time: two readings of the clock in the same
\* tick stand for a positive time shorter than a tick).
C12_ActiveOrCompleted ==
    \A i \in 1 .. Len(tasksFile.rows) :
        LET r == tasksFile.rows[i]
        IN \/ /\ r.end_time = Blank
              /\ r.duration_minutes = Blank
              /\ r.cost = Blank
           \/ /\ r.end_time # Blank
              /\ r.duration_minutes # Blank
              /\ r.cost # Blank
              /\ r.end_time >= r.start_time

\* C13: task_id is unique: no two rows of the task table share a task_id,
\* whichever sessions started them and however close in time.
C13_TaskIdUnique ==
    \A i, j \in 1 .. Len(TASKS_FILE) :
        i # j => TASKS_FILE[i].task_id # TASKS_FILE[j].task_id

\* C14: a finish for a task id that the table does not hold fails with
\* NotFound, a finish for a task whose end_time is already set fails with
\* AlreadyCompleted, and in both cases the task table is unchanged.
C14_FinishFails ==
    [][\A s \in Sessions :
          (active_task_id[s] # NoTask /\ report'.s = s
           /\ report'.op = "finish")
          => /\ active_task_id[s] \notin Ids(TASKS_FILE)
                => /\ report'.out = "not_found"
                   /\ TASKS_FILE' = TASKS_FILE
             /\ active_task_id[s] \in CompletedIds(TASKS_FILE)
                => /\ report'.out = "already_completed"
                   /\ TASKS_FILE' = TASKS_FILE]_vars

\* C17: the cost of a Completed task stays what it was at completion: no
\* step, a change of the employee's hourly rate and a save of the admin task
\* editor included, changes the cost of a Completed row that stays in the
\* table.
C17_CostKeepsRateAtCompletion ==
    [][\A i \in 1 .. Len(TASKS_FILE), j \in 1 .. Len(TASKS_FILE') :
          (/\ TASKS_FILE[i].end_time # Blank
           /\ TASKS_FILE'[j].task_id = TASKS_FILE[i].task_id
           /\ TASKS_FILE'[j].employee_id = TASKS_FILE[i].employee_id
           /\ TASKS_FILE'[j].end_time = TASKS_FILE[i].end_time)
          => TASKS_FILE'[j].cost = TASKS_FILE[i].cost]_vars

\* C19: in a session whose start has succeeded and that has neither finished
\* nor cancelled, a second start is rejected as already running: it writes
\* nothing, so the table keeps the one new row, and the session keeps its
\* running task.
C19_SecondStartRejected ==
    [][\A s \in Sessions :
          (active_task_id[s] # NoTask /\ report'.s = s
           /\ report'.op = "start")
          => /\ report'.out = "already_running"
             /\ TASKS_FILE' = TASKS_FILE
             /\ active_task_id' = active_task_id]_vars

\* C19 witness: a session's second start has just been rejected while the row
\* of its first start is the only row of the table
C19_Witness ==
    \E s \in Sessions :
        /\ report = Report(s, "start", "already_running", FALSE)
        /\ Len(TASKS_FILE) = 1
        /\ TASKS_FILE[1].task_id = active_task_id[s]
        /\ TASKS_FILE[1].end_time = Blank

\* C15: a load never hands its caller the product of a failed fetch as the
\* rows of the table: the frame a load returns, which the cache then keeps,
\* holds the rows the table has; a fetch that failed does not come back, with
\* nothing to tell it apart, as an empty table.
C15_FailedLoadIsNotATable ==
    [][(~cache.tasks.hit /\ cache'.tasks.hit)
       => cache'.tasks.df = GetTasksBody(tasksFile, TRUE)]_vars

\* C16: every start, finish or delete whose remote write was rejected or
\* failed ends with a message: none ends without any signal.
C16_FailureIsSignalled ==
    [][\A s \in Sessions :
          (/\ pc[s] \in {"get", "put"}
           /\ pc'[s] = "idle"
           /\ pend[s].op \in {"start", "finish", "delete"}
           /\ report'.out # "ok")
          => ShowsMessage(report'.out)]_vars

\* C18: the cache is transparent: whenever the cache holds the task table,
\* it holds what a load with the cache disabled would return at that moment,
\* so that every operation sees the same rows with and without the cache.
C18_CacheTransparent ==
    cache.tasks.hit => cache.tasks.df = GetTasksBody(tasksFile, TRUE)

\* the rows get_tasks() makes of a fetched tasks.csv, written back as CSV
NormalisedCsv(blob) ==
    ToCsv(GetTasksBody([exists |-> TRUE, rows |-> blob], TRUE))

\* the content of a pending put was computed from the rows of blob
BuiltOn(s, blob) ==
    LET p == pend[s]
        n == NormalisedCsv(blob)
    IN CASE p.op = "start" ->
                SubSeq(p.content, 1, Len(p.content) - 1) = n
         [] p.op = "sync" -> p.content = n
         [] p.op = "finish" ->
                /\ Len(p.content) = Len(n)
                /\ \A i \in 1 .. Len(n) :
                       \/ p.content[i] = n[i]
                       \/ /\ p.content[i].task_id = p.tid
                          /\ n[i].task_id = p.tid
         [] p.op = "delete" ->
                p.content =
                    SelectSeq(n, LAMBDA r :
                        r.task_id \notin ToDelete(p.ids, active_task_id[s]))
         [] OTHER -> TRUE

\* C20: every put carries the version token of the fetch whose rows its
\* content was computed from: the sha a session is about to send names the
\* file content that the rows it is about to write were built on.
C20_TokenOfTheRowsRead ==
    \A s \in Sessions :
        (pc[s] = "put" /\ pend[s].table = "tasks")
        => BuiltOn(s, IF pend[s].sha.has THEN pend[s].sha.blob ELSE <<>>)

\* C21: a delete removes exactly the ids it was asked to remove from the rows
\* the remote table holds when the delete is written: every other task that is
\* in the table at that moment, a task another session added after the
\* deleting session's last read included, is still in it afterwards.
C21_DeleteRemovesExactly ==
    [][\A s \in Sessions :
          (pc[s] = "put" /\ pend[s].op = "delete"
           /\ report'.s = s /\ report'.out = "ok")
          => Ids(tasksFile'.rows)
                 = Ids(tasksFile.rows) \ ToDelete(pend[s].ids, active_task_id[s])]_vars

\* C22: the default task types are written only over a library that is absent
\* or empty: no accepted put of the defaults replaces a library that holds
\* rows, whether the load that led to it failed or not.
C22_SeedOnlyWhenEmpty ==
    [][\A s \in Sessions :
          (pc[s] = "put" /\ pend[s].op = "seed"
           /\ report'.s = s /\ report'.out = "ok")
          => tasklistFile.rows = <<>>]_vars

\* C26: when the upsert of a task type has been written, the library holds
\* exactly one row with the submitted id, that row is the submitted row, and
\* every other row the library held is still in it, unchanged; upserting the
\* same row into a table twice gives the table that upserting it once gives.
C26_UpsertByKey ==
    [][\A s \in Sessions :
          (pc[s] = "put" /\ pend[s].op = "upsert"
           /\ report'.s = s /\ report'.out = "ok")
          => LET new_row == pend[s].content[Len(pend[s].content)]
                 tid == new_row.task_type_id
                 before == tasklistFile.rows
                 after == tasklistFile'.rows
             IN /\ Cardinality({i \in 1 .. Len(after) :
                                   after[i].task_type_id = tid}) = 1
                /\ \E i \in 1 .. Len(after) : after[i] = new_row
                /\ \A i \in 1 .. Len(before) :
                       before[i].task_type_id # tid
                       => before[i] \in SeqToSet(after)
                /\ UpsertTaskType(UpsertTaskType(before, new_row), new_row)
                       = UpsertTaskType(before, new_row)]_vars

\* C23: a start or a finish written after a load of the task table failed
\* keeps the rows of the remote table: every task that is in the table when
\* the put is made is in it afterwards.
C23_FailedLoadLosesNoRow ==
    [][\A s \in Sessions :
          (/\ pc[s] = "put"
           /\ pend[s].op \in {"start", "finish"}
           /\ report' = Report(s, pend[s].op, "ok", FALSE))
          => Ids(tasksFile.rows) \subseteq Ids(tasksFile'.rows)]_vars

C25_CompletedIsImmutable ==
    [][Len(TASKS_FILE') >= Len(TASKS_FILE)
       => \A i \in 1 .. Len(TASKS_FILE) :
              TASKS_FILE[i].end_time # Blank
              => /\ TASKS_FILE'[i].start_time = TASKS_FILE[i].start_time
                 /\ TASKS_FILE'[i].end_time = TASKS_FILE[i].end_time
                 /\ TASKS_FILE'[i].duration_minutes
                        = TASKS_FILE[i].duration_minutes]_vars

\* the step is the accepted put of session s's start or finish: the file
\* now holds the frame the handler built
AcceptedTimerPut(s) ==
    /\ pc[s] = "put"
    /\ pend[s].op \in {"start", "finish"}
    /\ report' = Report(s, pend[s].op, "ok", pend[s].guard)
    /\ tasksFile' = [exists |-> TRUE, rows |-> pend[s].content]

\* the step is a put of session s that was not accepted
FailedPut(s) ==
    /\ pc[s] = "put"
    /\ report'.s = s
    /\ report'.out \in {"put_exception", "rejected"}

\* C28: a session's active_task_id changes only in the step in which the put
\* of its start or of its finish is accepted (start sets it to the new row's
\* id, finish clears it), and a put that fails leaves every session's
\* active_task_id and the remote tables as they were
C28_ActiveChangesOnlyOnWrite ==
    [][\A s \in Sessions :
          /\ active_task_id'[s] # active_task_id[s]
                 => /\ AcceptedTimerPut(s)
                    /\ active_task_id'[s] = IF pend[s].op = "start"
                                            THEN pend[s].tid ELSE NoTask
          /\ FailedPut(s)
                 => /\ active_task_id' = active_task_id
                    /\ tasksFile' = tasksFile
                    /\ tasklistFile' = tasklistFile]_vars

\* the same, leaving out the steps of Cancel Active Task and Clear Active
\* Task
TimerWritesOnly ==
    [][\A s \in Sessions :
          /\ (active_task_id'[s] # active_task_id[s]
               /\ report'.op \notin {"cancel", "clear"})
                 => /\ AcceptedTimerPut(s)
                    /\ active_task_id'[s] = IF pend[s].op = "start"
                                            THEN pend[s].tid ELSE NoTask
          /\ FailedPut(s)
                 => /\ active_task_id' = active_task_id
                    /\ tasksFile' = tasksFile
                    /\ tasklistFile' = tasklistFile]_vars

\* C27: the cost a finish writes into the task's row is computed from the
\* hourly_rate the employees file holds for the task's employee at the
\* moment FINISH TASK is pressed, whatever the rate was at the start and
\* whatever was read before the file changed
C27_FinishUsesStoredRate ==
    [][\A s \in Sessions :
          (pc[s] = "idle" /\ pend'[s].op = "finish")
          => LET row == RowOf(pend'[s].content, pend'[s].tid)
             IN row.cost = Cost(Mins(row.start_time, clock),
                                hourly_rate[row.employee_id])]_vars

====
